---- MODULE Spec2Model ----
(***************************************************************************)
(* Model of app/vo_reader.py: the VO summary normalisation engine.         *)
(*                                                                         *)
(* Python values are tagged records, so that any two values can be         *)
(* compared:                                                               *)
(*   None           [t |-> "null"]                                         *)
(*   a string       [t |-> "str",  s |-> "..."]                            *)
(*   a boolean      [t |-> "bool", b |-> TRUE]                             *)
(*   a list         [t |-> "list", items |-> << value, ... >>]             *)
(*   a mapping      [t |-> "dict", items |-> << [k |-> key, v |-> value],  *)
(*                                             ... >>]                     *)
(* A mapping keeps its keys in insertion order, as Python's dict and       *)
(* OrderedDict do; its keys are plain strings.                             *)
(*                                                                         *)
(* A function that can raise returns a record with a field raised; a       *)
(* function that writes into an object its caller still holds returns the  *)
(* object's contents after the call next to its result.                    *)
(***************************************************************************)
EXTENDS Integers, Sequences, FiniteSets, TLC

VARIABLES contacts_table, reporting_groups, vos, registered, tree, outcome,
          offender, dumped, lastAuth, lastOp, nGetTree

vars == <<contacts_table, reporting_groups, vos, registered, tree, outcome,
          offender, dumped, lastAuth, lastOp, nGetTree>>

-----------------------------------------------------------------------------
(* Python values *)

Null == [t |-> "null"]

Str(s) == [t |-> "str", s |-> s]

Bool(b) == [t |-> "bool", b |-> b]

List(xs) == [t |-> "list", items |-> xs]

Dict(kvs) == [t |-> "dict", items |-> kvs]

KV(key, value) == [k |-> key, v |-> value]

\* key in d
Has(d, key) == \E i \in 1..Len(d.items) : d.items[i].k = key

\* d[key]
Get(d, key) == d.items[CHOOSE i \in 1..Len(d.items) : d.items[i].k = key].v

\* d.get(key, default)
GetDefault(d, key, default) == IF Has(d, key) THEN Get(d, key) ELSE default

\* d[key] = value: an existing key keeps its position, a new key goes last
Put(d, key, value) ==
    IF Has(d, key)
    THEN Dict([i \in 1..Len(d.items) |->
                 IF d.items[i].k = key THEN KV(key, value) ELSE d.items[i]])
    ELSE Dict(Append(d.items, KV(key, value)))

\* d.pop(key, None), as a statement
Pop(d, key) ==
    LET keep(e) == e.k # key IN Dict(SelectSeq(d.items, keep))

\* list(d.keys())
Keys(d) == [i \in 1..Len(d.items) |-> d.items[i].k]

Range(f) == { f[i] : i \in DOMAIN f }

\* x in xs, for a list xs
InList(xs, x) == \E i \in 1..Len(xs.items) : xs.items[i] = x

-----------------------------------------------------------------------------
(* app.common: is_null and expand_attr_list *)

\* the value counts as absent: None, or empty / false-like
IsNullValue(x) ==
    \/ x.t = "null"
    \/ x.t = "str" /\ x.s = ""
    \/ x.t = "bool" /\ ~x.b
    \/ x.t \in {"list", "dict"} /\ x.items = <<>>

is_null(x, key) == ~Has(x, key) \/ IsNullValue(Get(x, key))

\* one output record of expand_attr_list: the fields of ordering, in that
\* order; the name field holds the record's key, a field absent from the
\* record is left out
AttrRecord(name, value, namekey, ordering) ==
    LET F[i \in 0..Len(ordering)] ==
          IF i = 0 THEN <<>>
          ELSE LET elem == ordering[i] IN
               IF elem = namekey THEN Append(F[i-1], KV(elem, Str(name)))
               ELSE IF Has(value, elem)
                    THEN Append(F[i-1], KV(elem, Get(value, elem)))
                    ELSE F[i-1]
    IN Dict(F[Len(ordering)])

AttrMissing(value, namekey, ordering) ==
    \E i \in 1..Len(ordering) : ordering[i] # namekey /\ ~Has(value, ordering[i])

expand_attr_list(data, namekey, ordering, ignore_missing) ==
    [raised |-> /\ ~ignore_missing
                /\ \E i \in 1..Len(data.items) :
                      AttrMissing(data.items[i].v, namekey, ordering),
     value  |-> List([i \in 1..Len(data.items) |->
                        AttrRecord(data.items[i].k, data.items[i].v,
                                   namekey, ordering)])]

-----------------------------------------------------------------------------
(* expand_reportinggroups *)

\* fqan["GroupName"], fqan["Role"] raise KeyError on a FQAN without them
FqanMalformed(fqan) == ~Has(fqan, "GroupName") \/ ~Has(fqan, "Role")

ExpandFqan(fqan) ==
    Dict(<<KV("GroupName", Get(fqan, "GroupName")), KV("Role", Get(fqan, "Role"))>>)

\* the body of the loop for one retained catalog entry
ExpandGroupData(data) ==
    LET contacts == IF ~is_null(data, "Contacts")
                    THEN LET cs == Get(data, "Contacts").items IN
                         Dict(<<KV("Contact",
                                   List([i \in 1..Len(cs) |->
                                           Dict(<<KV("Name", cs[i])>>)]))>>)
                    ELSE Null
        hasF     == ~is_null(data, "FQANs")
        fs       == IF hasF THEN Get(data, "FQANs").items ELSE <<>>
        bad      == \E i \in 1..Len(fs) : FqanMalformed(fs[i])
        fqans    == IF hasF /\ ~bad
                    THEN Dict(<<KV("FQAN",
                                   List([i \in 1..Len(fs) |-> ExpandFqan(fs[i])]))>>)
                    ELSE Null
    IN [raised |-> bad,
        value  |-> Dict(<<KV("Contacts", contacts), KV("FQANs", fqans)>>)]

\* a variant of RetainedGroups: the loop runs over the VO's list of names, not
\* over the catalog
RetainedGroups_ListOrder(reportinggroups_list, reportinggroups_data) ==
    LET names == reportinggroups_list.items
        F[i \in 0..Len(names)] ==
          IF i = 0 THEN <<>>
          ELSE IF Has(reportinggroups_data, names[i].s)
               THEN Append(F[i-1], KV(names[i].s,
                                      Get(reportinggroups_data, names[i].s)))
               ELSE F[i-1]
    IN F[Len(names)]

\* the catalog entries the loop retains, in catalog order
RetainedGroups(reportinggroups_list, reportinggroups_data) ==
    LET keep(e) == InList(reportinggroups_list, Str(e.k))
    IN SelectSeq(reportinggroups_data.items, keep)

expand_reportinggroups(reportinggroups_list, reportinggroups_data) ==
    LET kept == RetainedGroups(reportinggroups_list, reportinggroups_data)
        new_reportinggroups ==
            Dict([i \in 1..Len(kept) |->
                    KV(kept[i].k, ExpandGroupData(kept[i].v).value)])
        bad == \E i \in 1..Len(kept) : ExpandGroupData(kept[i].v).raised
        expanded == expand_attr_list(new_reportinggroups, "Name",
                                     <<"Name", "FQANs", "Contacts">>, FALSE)
    IN [raised |-> bad \/ expanded.raised,
        value  |-> Dict(<<KV("ReportingGroup", expanded.value)>>)]

-----------------------------------------------------------------------------
(* expand_oasis_managers *)

\* the manager's record after the loop body has assigned its "DNs"
ManagerAfter(data) ==
    IF ~is_null(data, "DNs")
    THEN Put(data, "DNs", Dict(<<KV("DN", Get(data, "DNs"))>>))
    ELSE Put(data, "DNs", Null)

\* managers.copy() is shallow: new_managers[name] is the caller's own record,
\* so the assignment to new_managers[name]["DNs"] writes into it.
\* value is the result, managers the caller's mapping after the call.
expand_oasis_managers(managers) ==
    LET new_managers ==
            Dict([i \in 1..Len(managers.items) |->
                    KV(managers.items[i].k, ManagerAfter(managers.items[i].v))])
    IN [value    |-> Dict(<<KV("Manager",
                               expand_attr_list(new_managers, "Name",
                                                <<"ContactID", "Name", "DNs">>,
                                                TRUE).value)>>),
        managers |-> new_managers]

-----------------------------------------------------------------------------
(* expand_fields_of_science *)

\* a variant of expand_fields_of_science: SecondaryFields is set to None when
\* it is not supplied
expand_fields_of_science_NullSecondary(fields_of_science) ==
    IF is_null(fields_of_science, "PrimaryFields") THEN Null
    ELSE Dict(<<KV("PrimaryFields",
                   Dict(<<KV("Field", Get(fields_of_science, "PrimaryFields"))>>)),
                KV("SecondaryFields",
                   IF ~is_null(fields_of_science, "SecondaryFields")
                   THEN Dict(<<KV("Field", Get(fields_of_science, "SecondaryFields"))>>)
                   ELSE Null)>>)

expand_fields_of_science(fields_of_science) ==
    IF is_null(fields_of_science, "PrimaryFields") THEN Null
    ELSE LET primary == KV("PrimaryFields",
                           Dict(<<KV("Field", Get(fields_of_science, "PrimaryFields"))>>))
         IN IF ~is_null(fields_of_science, "SecondaryFields")
            THEN Dict(<<primary,
                        KV("SecondaryFields",
                           Dict(<<KV("Field", Get(fields_of_science, "SecondaryFields"))>>))>>)
            ELSE Dict(<<primary>>)

-----------------------------------------------------------------------------
(* VOData._expand_contacttypes *)

\* contact["ID"] in self.contacts_table
ContactInTable(table, contact) == Has(table, Get(contact, "ID").s)

\* the KeyErrors of the loop body: contact["Name"], contact["ID"],
\* extra_data["Email"]
ContactRaises(table, contact, authorized) ==
    \/ ~Has(contact, "Name")
    \/ /\ authorized
       /\ \/ ~Has(contact, "ID")
          \/ /\ ContactInTable(table, contact)
             /\ ~Has(Get(table, Get(contact, "ID").s), "Email")

\* a variant of ExpandContact: the authorized flag is not looked at
ExpandContact_Unchecked(table, contact, authorized) ==
    IF /\ Has(contact, "ID") /\ ContactInTable(table, contact)
       /\ Has(Get(table, Get(contact, "ID").s), "Email")
    THEN Dict(<<KV("Name", Get(contact, "Name")),
                KV("Email", Get(Get(table, Get(contact, "ID").s), "Email")),
                KV("Phone", GetDefault(Get(table, Get(contact, "ID").s),
                                       "Phone", Str(""))),
                KV("SMSAddress", GetDefault(Get(table, Get(contact, "ID").s),
                                            "SMS", Str("")))>>)
    ELSE Dict(<<KV("Name", Get(contact, "Name"))>>)

ExpandContact(table, contact, authorized) ==
    LET name == KV("Name", Get(contact, "Name")) IN
    IF authorized /\ ContactInTable(table, contact)
    THEN LET extra_data == Get(table, Get(contact, "ID").s) IN
         Dict(<<name,
                KV("Email", Get(extra_data, "Email")),
                KV("Phone", GetDefault(extra_data, "Phone", Str(""))),
                KV("SMSAddress", GetDefault(extra_data, "SMS", Str("")))>>)
    ELSE Dict(<<name>>)

expand_contacttypes(table, vo_contacts, authorized) ==
    LET types == vo_contacts.items
        bad == \E i \in 1..Len(types) : \E j \in 1..Len(types[i].v.items) :
                  ContactRaises(table, types[i].v.items[j], authorized)
        contact_data(list_) ==
            List([j \in 1..Len(list_.items) |->
                    ExpandContact(table, list_.items[j], authorized)])
    IN [raised |-> bad,
        value  |-> IF bad THEN Null
                   ELSE Dict(<<KV("ContactType",
                       List([i \in 1..Len(types) |->
                           Dict(<<KV("Type", Str(types[i].k)),
                                  KV("Contacts",
                                     Dict(<<KV("Contact",
                                               contact_data(types[i].v))>>))>>)]))>>)]

-----------------------------------------------------------------------------
(* VOData._expand_vo *)

SchemaOrder ==
    <<"ID", "Name", "LongName", "CertificateOnly", "PrimaryURL",
      "MembershipServicesURL", "PurposeURL", "SupportURL", "AppDescription",
      "Community", "FieldsOfScience", "ParentVO", "ReportingGroups", "Active",
      "Disable", "ContactTypes", "OASIS">>

URLKeys == <<"MembershipServicesURL", "PrimaryURL", "PurposeURL", "SupportURL">>

\* the OASIS block built from vo["OASIS"], and vo["OASIS"] after the call
ExpandOasis(o) ==
    LET hasM == ~is_null(o, "Managers")
        m    == expand_oasis_managers(Get(o, "Managers"))
    IN [value |-> Dict(<<KV("UseOASIS", GetDefault(o, "UseOASIS", Bool(FALSE))),
                         KV("Managers", IF hasM THEN m.value ELSE Null),
                         KV("OASISRepoURLs",
                            IF is_null(o, "OASISRepoURLs") THEN Null
                            ELSE Dict(<<KV("URL", Get(o, "OASISRepoURLs"))>>))>>),
        oasis |-> IF hasM THEN Put(o, "Managers", m.managers) ELSE o]

\* the ordered sub-record holding ID and Name, each only if present
ExpandParentVO(p) ==
    LET keep(e) == Has(p, e) IN
    LET ks == SelectSeq(<<"ID", "Name">>, keep) IN
    Dict([i \in 1..Len(ks) |-> KV(ks[i], Get(p, ks[i]))])

\* a variant of FillURLs: the loop over the URL keys is left out
FillURLs_Skipped(w) == w

\* for key in [...]: if key not in vo: vo[key] = None
FillURLs(w) ==
    LET F[i \in 0..Len(URLKeys)] ==
          IF i = 0 THEN w
          ELSE IF Has(F[i-1], URLKeys[i]) THEN F[i-1]
               ELSE Put(F[i-1], URLKeys[i], Null)
    IN F[Len(URLKeys)]

\* a variant of RestoreOrdering: the schema fields are kept in the working
\* record's own order
RestoreOrdering_InputOrder(w) ==
    LET keep(e) == e.k \in Range(SchemaOrder) IN Dict(SelectSeq(w.items, keep))

\* the final assembly: the schema fields the working record has, in schema order
RestoreOrdering(w) ==
    LET keep(e) == Has(w, e) IN
    LET ks == SelectSeq(SchemaOrder, keep) IN
    Dict([i \in 1..Len(ks) |-> KV(ks[i], Get(w, ks[i]))])

\* the steps of _expand_vo on the working copy w of the VO, a step's
\* expansion given as value
SetContactTypes(w, authorized, table) ==
    Pop(Put(w, "ContactTypes",
            IF is_null(w, "Contacts") THEN Null
            ELSE expand_contacttypes(table, Get(w, "Contacts"), authorized).value),
        "Contacts")

SetReportingGroups(w, groups) ==
    Put(w, "ReportingGroups",
        IF is_null(w, "ReportingGroups") THEN Null
        ELSE expand_reportinggroups(Get(w, "ReportingGroups"), groups).value)

SetOasis(w) ==
    Put(w, "OASIS",
        IF is_null(w, "OASIS") THEN Null ELSE ExpandOasis(Get(w, "OASIS")).value)

SetFieldsOfScience(w) ==
    Put(w, "FieldsOfScience",
        IF is_null(w, "FieldsOfScience") THEN Null
        ELSE expand_fields_of_science(Get(w, "FieldsOfScience")))

\* a variant of SetParentVO: a VO without the key is left without it
SetParentVO_Absent(w) ==
    IF ~Has(w, "ParentVO") THEN w
    ELSE Put(w, "ParentVO",
             IF ~is_null(w, "ParentVO") THEN ExpandParentVO(Get(w, "ParentVO"))
             ELSE Null)

SetParentVO(w) ==
    Put(w, "ParentVO",
        IF ~is_null(w, "ParentVO") THEN ExpandParentVO(Get(w, "ParentVO"))
        ELSE Null)

\* an expansion of the VO raises: the contact types come first, then the
\* reporting groups
ExpandVORaises(table, groups, authorized, vo) ==
    \/ /\ ~is_null(vo, "Contacts")
       /\ expand_contacttypes(table, Get(vo, "Contacts"), authorized).raised
    \/ /\ ~is_null(vo, "ReportingGroups")
       /\ expand_reportinggroups(Get(vo, "ReportingGroups"), groups).raised

\* the caller's record after a call that returns: vo.copy() is shallow, so
\* the records of vo["OASIS"]["Managers"] are the caller's own
CallerVOAfter(vo) ==
    IF is_null(vo, "OASIS") THEN vo
    ELSE Put(vo, "OASIS", ExpandOasis(Get(vo, "OASIS")).oasis)

\* value is the record returned, vo the caller's record after the call
expand_vo(table, groups, authorized, vo) ==
    IF ExpandVORaises(table, groups, authorized, vo)
    THEN [raised |-> TRUE, value |-> Null, vo |-> vo]
    ELSE [raised |-> FALSE,
          value  |-> RestoreOrdering(FillURLs(SetParentVO(SetFieldsOfScience(
                        SetOasis(SetReportingGroups(
                           SetContactTypes(vo, authorized, table), groups)))))),
          vo     |-> CallerVOAfter(vo)]

-----------------------------------------------------------------------------
(* VOData *)

\* the schema location, imported from app.common; it stands for itself
VOSUMMARY_SCHEMA_URL == "VOSUMMARY_SCHEMA_URL"

\* self.contacts_table = contacts_table or {}
VOData_init(table, groups) ==
    [contacts_table   |-> IF IsNullValue(table) THEN Dict(<<>>) ELSE table,
     vos              |-> <<>>,
     reporting_groups |-> groups]

\* a variant of add_vo: the VO is put in front of the list
add_vo_Front(self_vos, vo) == <<vo>> \o self_vos

add_vo(self_vos, vo) == Append(self_vos, vo)

\* one more VO of the list comprehension of get_tree: p is the state after
\* the VOs before the i-th, r the expansion of the i-th
ExpandNext(p, r, i) ==
    IF p.raised THEN p
    ELSE IF r.raised THEN [p EXCEPT !.raised = TRUE, !.at = i]
    ELSE [p EXCEPT !.out = Append(@, r.value), !.after = [@ EXCEPT ![i] = r.vo]]

\* the list comprehension of get_tree: the VOs in order, up to the first one
\* whose expansion raises. out holds the records built so far, after the
\* caller's VOs after the call, at the index of the VO that raised.
ExpandAll(table, groups, authorized, self_vos) ==
    LET F[i \in 0..Len(self_vos)] ==
          IF i = 0
          THEN [raised |-> FALSE, at |-> 0, out |-> <<>>, after |-> self_vos]
          ELSE ExpandNext(F[i-1],
                          expand_vo(table, groups, authorized, self_vos[i]), i)
    IN F[Len(self_vos)]

\* the tree get_tree returns around the expanded VOs
VOSummary(expanded_vos) ==
    Dict(<<KV("VOSummary",
              Dict(<<KV("@xmlns:xsi",
                        Str("http://www.w3.org/2001/XMLSchema-instance")),
                     KV("@xsi:schemaLocation", Str(VOSUMMARY_SCHEMA_URL)),
                     KV("VO", List(expanded_vos))>>))>>)

GetTreeResult(e) ==
    [raised |-> e.raised,
     at     |-> e.at,
     vos    |-> e.after,
     value  |-> IF e.raised THEN Null ELSE VOSummary(e.out)]

get_tree(table, groups, authorized, self_vos) ==
    GetTreeResult(ExpandAll(table, groups, authorized, self_vos))

-----------------------------------------------------------------------------
(* Bounds *)

\* VOs registered in one run
MaxVOs == 2

\* get_tree calls in one run
MaxGetTree == 2

-----------------------------------------------------------------------------
(* Inputs *)

StrList(ss) == List([i \in 1..Len(ss) |-> Str(ss[i])])

\* the contacts file: none given, an entry with every field and one with the
\* Email only, an entry without its Email
ContactsTableInputs ==
    { Null,
      Dict(<<KV("c1", Dict(<<KV("Email", Str("e1")), KV("Phone", Str("p1")),
                             KV("SMS", Str("s1"))>>)),
             KV("c2", Dict(<<KV("Email", Str("e2"))>>))>>),
      Dict(<<KV("c1", Dict(<<KV("Phone", Str("p1"))>>))>>) }

Fqan(g, r) == Dict(<<KV("GroupName", Str(g)), KV("Role", Str(r))>>)

\* REPORTING_GROUPS.yaml: the catalog of the spec's example, and one that
\* lists GroupB before GroupA and holds a FQAN without its Role
ReportingGroupsInputs ==
    { Dict(<<KV("GroupA", Dict(<<KV("FQANs", List(<<Fqan("g", "r")>>))>>))>>),
      Dict(<<KV("GroupB", Dict(<<KV("Contacts", StrList(<<"a", "b">>)),
                                 KV("FQANs", List(<<Fqan("g", "r"),
                                                    Fqan("h", "s")>>))>>)),
             KV("GroupA", Dict(<<KV("Contacts", StrList(<<"a">>))>>)),
             KV("Bad", Dict(<<KV("FQANs",
                                 List(<<Dict(<<KV("GroupName", Str("g"))>>)>>))>>))>>) }

Contact(name, id) == Dict(<<KV("Name", Str(name)), KV("ID", Str(id))>>)

ContactsChoices ==
    { Null,
      Dict(<<>>),
      Dict(<<KV("Admin", List(<<Contact("a", "c1")>>))>>),
      Dict(<<KV("Admin", List(<<Contact("a", "c1"), Contact("c", "c3")>>)),
             KV("Security", List(<<Contact("b", "c2")>>))>>),
      Dict(<<KV("Admin", List(<<Dict(<<KV("ID", Str("c1"))>>)>>))>>),
      Dict(<<KV("Admin", List(<<Dict(<<KV("Name", Str("a"))>>)>>))>>) }

ReportingGroupsChoices ==
    { Null, List(<<>>) } \cup
    { StrList(ss) : ss \in { <<"GroupA">>, <<"GroupA", "GroupB">>,
                             <<"GroupB", "GroupA">>, <<"GroupZ">>,
                             <<"GroupA", "GroupA">>, <<"GroupZ", "GroupB">>,
                             <<"Bad">> } }

OasisChoices ==
    { Null,
      Dict(<<>>),
      Dict(<<KV("UseOASIS", Bool(TRUE))>>),
      Dict(<<KV("Managers",
                Dict(<<KV("m1", Dict(<<KV("DNs", StrList(<<"dn1", "dn2">>))>>)),
                       KV("m2", Dict(<<KV("ContactID", Str("c1"))>>))>>)),
             KV("OASISRepoURLs", StrList(<<"u1">>))>>),
      Dict(<<KV("UseOASIS", Bool(FALSE)),
             KV("Managers",
                Dict(<<KV("m1", Dict(<<KV("DNs", StrList(<<"dn1">>)),
                                       KV("ContactID", Str("c2"))>>))>>))>>),
      Dict(<<KV("UseOASIS", Bool(TRUE)), KV("Managers", Dict(<<>>))>>),
      Dict(<<KV("Managers", Dict(<<KV("m1", Dict(<<KV("DNs", List(<<>>))>>))>>))>>) }

FieldsOfScienceChoices ==
    { Null,
      Dict(<<>>),
      Dict(<<KV("PrimaryFields", StrList(<<"P1">>))>>),
      Dict(<<KV("SecondaryFields", StrList(<<"S1">>)),
             KV("PrimaryFields", StrList(<<"P1", "P2">>))>>),
      Dict(<<KV("SecondaryFields", StrList(<<"S1">>))>>),
      Dict(<<KV("PrimaryFields", List(<<>>)),
             KV("SecondaryFields", StrList(<<"S1">>))>>),
      Dict(<<KV("PrimaryFields", StrList(<<"P1">>)),
             KV("SecondaryFields", List(<<>>))>>),
      Dict(<<KV("PrimaryFields", StrList(<<"P1">>)),
             KV("SecondaryFields", Null)>>) }

ParentVOChoices ==
    { Null,
      Dict(<<>>),
      Dict(<<KV("ID", Str("3"))>>),
      Dict(<<KV("Name", Str("P")), KV("ID", Str("3"))>>),
      Dict(<<KV("ID", Str("3")), KV("Name", Str("P")), KV("Extra", Str("x"))>>) }

\* the keys of a VO file whose values are copied as they are, in an order that
\* is not the schema's; Extra is no field of the schema
ScalarKeys ==
    <<"SupportURL", "Extra", "Disable", "Active", "Community", "AppDescription",
      "PurposeURL", "PrimaryURL", "MembershipServicesURL", "CertificateOnly",
      "LongName", "Name", "ID">>

\* a VO file holding the scalar keys of present
ScalarVO(present) ==
    LET keep(e) == e \in present IN
    LET ks == SelectSeq(ScalarKeys, keep) IN
    Dict([i \in 1..Len(ks) |-> KV(ks[i], Str(ks[i]))])

ScalarVOInputs == { ScalarVO(present) : present \in SUBSET Range(ScalarKeys) }

\* a VO file holding a Name and one structured field
OneFieldVO(key, value) == Dict(<<KV("Name", Str("V")), KV(key, value)>>)

\* a VO file holding every recognised field
FullVO ==
    Dict(ScalarVO(Range(ScalarKeys)).items \o
         <<KV("OASIS",
              Dict(<<KV("UseOASIS", Bool(TRUE)),
                     KV("Managers",
                        Dict(<<KV("m1", Dict(<<KV("DNs", StrList(<<"dn1">>))>>))>>))>>)),
           KV("Contacts", Dict(<<KV("Admin", List(<<Contact("a", "c1")>>))>>)),
           KV("ParentVO", Dict(<<KV("Name", Str("P")), KV("ID", Str("3"))>>)),
           KV("ReportingGroups", StrList(<<"GroupA", "GroupB">>)),
           KV("FieldsOfScience", Dict(<<KV("PrimaryFields", StrList(<<"P1">>))>>))>>)

StructuredVOInputs ==
    { OneFieldVO("Contacts", c) : c \in ContactsChoices } \cup
    { OneFieldVO("ReportingGroups", g) : g \in ReportingGroupsChoices } \cup
    { OneFieldVO("OASIS", o) : o \in OasisChoices } \cup
    { OneFieldVO("FieldsOfScience", f) : f \in FieldsOfScienceChoices } \cup
    { OneFieldVO("ParentVO", q) : q \in ParentVOChoices } \cup
    { FullVO }

\* the VO files of the runs that register several VOs
VOInputs ==
    { Dict(<<KV("Name", Str("ExampleVO")), KV("ID", Str("1")),
             KV("ReportingGroups", StrList(<<"GroupA">>))>>),
      OneFieldVO("OASIS",
                 Dict(<<KV("Managers",
                           Dict(<<KV("m1", Dict(<<KV("DNs", StrList(<<"dn1">>))>>)),
                                  KV("m2", Dict(<<KV("ContactID", Str("c1"))>>))>>))>>)),
      OneFieldVO("Contacts", Dict(<<KV("Admin", List(<<Contact("a", "c1")>>))>>)),
      OneFieldVO("Contacts",
                 Dict(<<KV("Admin", List(<<Dict(<<KV("ID", Str("c1"))>>)>>))>>)),
      Dict(<<KV("LongName", Str("L"))>>),
      FullVO }

-----------------------------------------------------------------------------
(* The runs: a VOData is built, VOs are registered, trees are asked for *)

TypeOK ==
    /\ contacts_table.t = "dict"
    /\ reporting_groups.t = "dict"
    /\ Len(vos) = Len(registered)
    /\ outcome \in {"none", "returned", "raised"}
    /\ lastOp \in {"new", "add_vo", "get_tree"}
    /\ lastAuth \in BOOLEAN
    /\ nGetTree \in 0..MaxGetTree

\* vo_data = VOData(contacts_table=table, reporting_groups=groups), with vos0
\* registered
InitWith(table, groups, vos0) ==
    /\ contacts_table = VOData_init(table, groups).contacts_table
    /\ reporting_groups = VOData_init(table, groups).reporting_groups
    /\ vos = VOData_init(table, groups).vos \o vos0
    /\ registered = vos0
    /\ tree = Null
    /\ outcome = "none"
    /\ offender = Null
    /\ dumped = <<>>
    /\ lastAuth = FALSE
    /\ lastOp = "new"
    /\ nGetTree = 0

Init ==
    \E table \in ContactsTableInputs, groups \in ReportingGroupsInputs :
       InitWith(table, groups, <<>>)

\* one round of the loop of get_vos: the file is parsed and vo_data.add_vo(vo)
\* runs inside the try. add_vo is a list append and raises nothing, so the
\* except clause, which prints the VO, does not run: dumped stays as it is.
AddVO ==
    \E vo \in VOInputs :
       /\ Len(vos) < MaxVOs
       /\ vos' = add_vo(vos, vo)
       /\ registered' = Append(registered, vo)
       /\ lastOp' = "add_vo"
       /\ UNCHANGED <<contacts_table, reporting_groups, tree, outcome, offender,
                      dumped, lastAuth, nGetTree>>

\* vo_data.get_tree(authorized), outside the try: a tree is returned, or the
\* exception of an expansion leaves get_vos. offender is the VO whose expansion
\* raised.
GetTreeReturns(r, authorized) ==
    /\ vos' = r.vos
    /\ tree' = r.value
    /\ outcome' = IF r.raised THEN "raised" ELSE "returned"
    /\ offender' = IF r.raised THEN vos[r.at] ELSE Null
    /\ lastAuth' = authorized
    /\ lastOp' = "get_tree"
    /\ nGetTree' = nGetTree + 1
    /\ UNCHANGED <<contacts_table, reporting_groups, registered, dumped>>

GetTree ==
    \E authorized \in BOOLEAN :
       /\ nGetTree < MaxGetTree
       /\ GetTreeReturns(get_tree(contacts_table, reporting_groups, authorized, vos),
                         authorized)

Next == AddVO \/ GetTree

Spec == Init /\ [][Next]_vars

\* the catalogs the VO files of scalar keys are expanded with
ScalarTable ==
    CHOOSE table \in ContactsTableInputs : table.t = "dict" /\ Has(table, "c2")

ScalarGroups == CHOOSE groups \in ReportingGroupsInputs : Has(groups, "GroupB")

\* _expand_vo on its own: one VO file is registered and expanded, drawn from
\* every set of scalar keys, and from every shape of the structured fields
\* with every catalog
InitExpand ==
    \/ \E vo \in ScalarVOInputs : InitWith(ScalarTable, ScalarGroups, <<vo>>)
    \/ \E vo \in StructuredVOInputs :
          \E table \in ContactsTableInputs, groups \in ReportingGroupsInputs :
             InitWith(table, groups, <<vo>>)

NextExpand == GetTree

SpecExpand == InitExpand /\ [][NextExpand]_vars

-----------------------------------------------------------------------------
(* Properties *)

\* the expanded VO records of a returned tree
TreeVOsOf(t) == Get(Get(t, "VOSummary"), "VO").items

\* P(vo, new_vo) for every registered VO file vo and the record new_vo that
\* the last get_tree call returned for it. The scalar keys and the Contacts,
\* ReportingGroups, FieldsOfScience and ParentVO of a VO are never written, so
\* the file as registered is the input of the call where P reads only those.
ForEachExpanded(P(_, _)) ==
    outcome = "returned" =>
       \A i \in 1..Len(TreeVOsOf(tree)) : P(registered[i], TreeVOsOf(tree)[i])

ExistsExpanded(P(_, _)) ==
    /\ outcome = "returned"
    /\ \E i \in 1..Len(TreeVOsOf(tree)) : P(registered[i], TreeVOsOf(tree)[i])

\* the keys steps 1 to 6 of _expand_vo always set
AlwaysSetKeys ==
    {"PrimaryURL", "MembershipServicesURL", "PurposeURL", "SupportURL",
     "FieldsOfScience", "ParentVO", "ReportingGroups", "ContactTypes", "OASIS"}

\* the schema keys _expand_vo only copies
CopiedKeys ==
    {"ID", "Name", "LongName", "CertificateOnly", "AppDescription", "Community",
     "Active", "Disable"}

\* the position of a key in the schema list
SchemaIndex(key) == CHOOSE i \in 1..Len(SchemaOrder) : SchemaOrder[i] = key

(* C1 *)

\* C1, as stated: the record returned by _expand_vo has exactly the keys of the
\* schema list, in the schema's order, none missing, whatever the input holds.
C1_FullSchema ==
    LET P(vo, new_vo) == Keys(new_vo) = SchemaOrder IN ForEachExpanded(P)

\* the schema list without the copied keys the VO file does not hold
ExpectedKeys(vo) ==
    LET keep(e) == e \in AlwaysSetKeys \/ Has(vo, e) IN SelectSeq(SchemaOrder, keep)

\* C1, amended: the key sequence of the record returned by _expand_vo is the
\* schema list, in the schema's order, without those of ID, Name, LongName,
\* CertificateOnly, AppDescription, Community, Active and Disable that the input
\* does not hold; it is the whole schema list when the input holds all eight;
\* a URL field absent from the input appears with value null.
C1_SchemaOrderOfHeldKeys ==
    LET P(vo, new_vo) ==
          /\ Keys(new_vo) = ExpectedKeys(vo)
          /\ (\A key \in CopiedKeys : Has(vo, key)) => Keys(new_vo) = SchemaOrder
          /\ \A key \in CopiedKeys : ~Has(vo, key) => ~Has(new_vo, key)
          /\ \A key \in Range(URLKeys) : ~Has(vo, key) => Get(new_vo, key) = Null
    IN ForEachExpanded(P)

\* a VO file without ID and PrimaryURL, its keys not in schema order, expanded
\* into a record that starts with Name and holds PrimaryURL
C1_Witness ==
    LET P(vo, new_vo) ==
          /\ ~Has(vo, "ID") /\ ~Has(vo, "PrimaryURL")
          /\ Has(vo, "Name") /\ Has(vo, "SupportURL")
          /\ SchemaIndex(Keys(vo)[1]) > SchemaIndex(Keys(vo)[Len(Keys(vo))])
          /\ Keys(new_vo)[1] = "Name" /\ Has(new_vo, "PrimaryURL")
    IN ExistsExpanded(P)

(* C6 *)

\* the structured fields: the key of the VO file, the key of the record
StructuredFields ==
    { <<"FieldsOfScience", "FieldsOfScience">>, <<"ParentVO", "ParentVO">>,
      <<"ReportingGroups", "ReportingGroups">>, <<"OASIS", "OASIS">>,
      <<"Contacts", "ContactTypes">> }

\* C6: for FieldsOfScience, ParentVO, ReportingGroups, OASIS and ContactTypes
\* (from Contacts), a field absent from the VO file is a key of the record
\* returned by _expand_vo, with value null.
C6_AbsentIsNull ==
    LET P(vo, new_vo) ==
          \A f \in StructuredFields :
             ~Has(vo, f[1]) => Has(new_vo, f[2]) /\ Get(new_vo, f[2]) = Null
    IN ForEachExpanded(P)

\* a VO file with none of the five fields has been expanded
C6_Witness ==
    LET P(vo, new_vo) ==
          /\ \A f \in StructuredFields : ~Has(vo, f[1])
          /\ Get(new_vo, "ParentVO") = Null
    IN ExistsExpanded(P)

(* C9 *)

\* C9: the keys of the record returned by _expand_vo are schema keys in
\* ascending schema position; the nine keys set by steps 1 to 6 are always
\* among them; each of the eight copied keys is among them exactly when the VO
\* file holds it; no key outside the schema, nor Contacts, is among them.
C9_KeysSubsequence ==
    LET P(vo, new_vo) ==
          LET ks == Keys(new_vo) IN
          /\ \A a \in 1..Len(ks) : ks[a] \in Range(SchemaOrder)
          /\ \A a, b \in 1..Len(ks) :
                a < b => SchemaIndex(ks[a]) < SchemaIndex(ks[b])
          /\ \A key \in AlwaysSetKeys : Has(new_vo, key)
          /\ \A key \in CopiedKeys : Has(new_vo, key) <=> Has(vo, key)
          /\ \A key \in Range(Keys(vo)) \ Range(SchemaOrder) : ~Has(new_vo, key)
          /\ ~Has(new_vo, "Contacts")
    IN ForEachExpanded(P)

\* a VO file with ID and Extra and without LongName has been expanded into a
\* record shorter than the schema list
C9_Witness ==
    LET P(vo, new_vo) ==
          /\ Has(vo, "Extra") /\ Has(vo, "ID") /\ ~Has(vo, "LongName")
          /\ ~Has(vo, "SupportURL")
          /\ Len(Keys(new_vo)) < Len(SchemaOrder)
    IN ExistsExpanded(P)

(* C3 *)

\* the contact of the VO file is one the directory knows, asked for by an
\* authorized caller
Enriched(contact) ==
    /\ lastAuth
    /\ Has(contact, "ID")
    /\ Has(contacts_table, Get(contact, "ID").s)

\* what C3 says of one contact of the VO file and its output record
ContactAsSpecified(contact, new_contact) ==
    IF Enriched(contact)
    THEN LET entry == Get(contacts_table, Get(contact, "ID").s) IN
         /\ Keys(new_contact) = <<"Name", "Email", "Phone", "SMSAddress">>
         /\ Get(new_contact, "Name") = Get(contact, "Name")
         /\ Get(new_contact, "Email") = Get(entry, "Email")
         /\ Get(new_contact, "Phone") =
               (IF Has(entry, "Phone") THEN Get(entry, "Phone") ELSE Str(""))
         /\ Get(new_contact, "SMSAddress") =
               (IF Has(entry, "SMS") THEN Get(entry, "SMS") ELSE Str(""))
    ELSE /\ Keys(new_contact) = <<"Name">>
         /\ Get(new_contact, "Name") = Get(contact, "Name")

\* the output contacts of the type-th bucket of an expanded VO record
OutContacts(new_vo, type) ==
    Get(Get(Get(Get(new_vo, "ContactTypes"), "ContactType").items[type],
            "Contacts"), "Contact").items

\* C3: an output contact holds Name, Email, Phone, SMSAddress, in that order
\* and with the directory's values (the empty string for a Phone or SMS the
\* entry omits), exactly when authorized is true and the contact's ID is a key
\* of the contacts table; every other output contact holds its Name alone.
C3_ContactEnrichment ==
    LET P(vo, new_vo) ==
          ~is_null(vo, "Contacts") =>
             LET types == Get(vo, "Contacts").items IN
             /\ Len(Get(Get(new_vo, "ContactTypes"), "ContactType").items) = Len(types)
             /\ \A type \in 1..Len(types) :
                   /\ Len(OutContacts(new_vo, type)) = Len(types[type].v.items)
                   /\ \A j \in 1..Len(types[type].v.items) :
                         ContactAsSpecified(types[type].v.items[j],
                                          OutContacts(new_vo, type)[j])
    IN ForEachExpanded(P)

\* an authorized tree holds, in one bucket, a contact enriched from an entry
\* without Phone and a contact that holds its Name alone
C3_Witness ==
    LET P(vo, new_vo) ==
          /\ lastAuth
          /\ ~is_null(vo, "Contacts")
          /\ \E type \in 1..Len(Get(vo, "Contacts").items) :
                \E j \in 1..Len(OutContacts(new_vo, type)) :
                   /\ Has(OutContacts(new_vo, type)[j], "Email")
                   /\ Get(OutContacts(new_vo, type)[j], "Phone") = Str("")
          /\ \E type \in 1..Len(Get(vo, "Contacts").items) :
                \E j \in 1..Len(OutContacts(new_vo, type)) :
                   Keys(OutContacts(new_vo, type)[j]) = <<"Name">>
    IN ExistsExpanded(P)

(* C4 *)

\* the catalog keys that occur in the list of names, in catalog order
ReferencedInCatalog(names) ==
    LET keep(key) == InList(names, Str(key)) IN SelectSeq(Keys(reporting_groups), keep)

\* the Name values of the expanded reporting groups of a record
GroupNames(new_vo) ==
    LET groups == Get(Get(new_vo, "ReportingGroups"), "ReportingGroup").items
    IN [i \in 1..Len(groups) |-> Get(groups[i], "Name")]

\* C4: for a non-empty list of names, expand_reportinggroups returns
\* {"ReportingGroup": L} where the Names of L are the catalog keys that occur in
\* the list, each once, in catalog order; a name missing from the catalog adds
\* no entry and raises nothing (a run that raises in the reporting groups has
\* met a catalog entry with a FQAN without GroupName or Role), so L is the
\* empty list, not null, when every name is missing.
C4_ReportingGroupsInCatalogOrder ==
    /\ LET P(vo, new_vo) ==
             ~is_null(vo, "ReportingGroups") =>
                LET names == Get(vo, "ReportingGroups")
                    expected == ReferencedInCatalog(names)
                IN /\ Keys(Get(new_vo, "ReportingGroups")) = <<"ReportingGroup">>
                   /\ GroupNames(new_vo) = [i \in 1..Len(expected) |-> Str(expected[i])]
                   /\ expected = <<>> =>
                         Get(new_vo, "ReportingGroups") =
                            Dict(<<KV("ReportingGroup", List(<<>>))>>)
       IN ForEachExpanded(P)
    /\ (outcome = "raised" /\ is_null(offender, "Contacts")) =>
          \E key \in Range(ReferencedInCatalog(Get(offender, "ReportingGroups"))) :
             /\ ~is_null(Get(reporting_groups, key), "FQANs")
             /\ \E fqan \in Range(Get(Get(reporting_groups, key), "FQANs").items) :
                   FqanMalformed(fqan)

\* a VO that lists GroupA before GroupB has been expanded with a catalog that
\* holds GroupB before GroupA: the groups come out as GroupB, GroupA
C4_Witness ==
    LET P(vo, new_vo) ==
          /\ ~is_null(vo, "ReportingGroups")
          /\ Get(vo, "ReportingGroups") = StrList(<<"GroupA", "GroupB">>)
          /\ GroupNames(new_vo) = <<Str("GroupB"), Str("GroupA")>>
    IN ExistsExpanded(P)

(* C8 *)

\* the field is supplied and not empty
Supplied(fields, key) ==
    /\ Has(fields, key)
    /\ Get(fields, key).t = "list"
    /\ Get(fields, key).items # <<>>

\* C8: expand_fields_of_science returns null when PrimaryFields is absent or
\* empty; otherwise a mapping whose first key is PrimaryFields = {"Field": the
\* primary list} and that holds SecondaryFields = {"Field": the secondary
\* list} exactly when SecondaryFields is supplied and not empty, never with
\* value null.
C8_FieldsOfScience ==
    LET P(vo, new_vo) ==
          ~is_null(vo, "FieldsOfScience") =>
             LET fields == Get(vo, "FieldsOfScience")
                 new_fields == Get(new_vo, "FieldsOfScience")
             IN IF ~Supplied(fields, "PrimaryFields") THEN new_fields = Null
                ELSE /\ new_fields.t = "dict"
                     /\ Keys(new_fields)[1] = "PrimaryFields"
                     /\ Get(new_fields, "PrimaryFields") =
                           Dict(<<KV("Field", Get(fields, "PrimaryFields"))>>)
                     /\ Has(new_fields, "SecondaryFields")
                           <=> Supplied(fields, "SecondaryFields")
                     /\ Has(new_fields, "SecondaryFields") =>
                           Get(new_fields, "SecondaryFields") =
                              Dict(<<KV("Field", Get(fields, "SecondaryFields"))>>)
                     /\ Range(Keys(new_fields)) \subseteq
                           {"PrimaryFields", "SecondaryFields"}
    IN ForEachExpanded(P)

\* a VO with PrimaryFields and an empty SecondaryFields has been expanded into
\* fields of science that hold PrimaryFields alone
C8_Witness ==
    LET P(vo, new_vo) ==
          /\ ~is_null(vo, "FieldsOfScience")
          /\ Supplied(Get(vo, "FieldsOfScience"), "PrimaryFields")
          /\ Has(Get(vo, "FieldsOfScience"), "SecondaryFields")
          /\ Keys(Get(new_vo, "FieldsOfScience")) = <<"PrimaryFields">>
    IN ExistsExpanded(P)

(* C2 *)

\* C2, as stated: get_tree leaves the caller's VO records as they were
\* registered, nested values included.
C2_CallerUntouched == vos = registered

(* C5 *)

\* C5, as stated: when an expansion of a VO raises, the VO has been printed by
\* the time the exception leaves get_vos, and no tree is returned.
C5_OffenderDumped ==
    outcome = "raised" =>
       /\ tree = Null
       /\ \E j \in 1..Len(dumped) : dumped[j] = offender

(* C7 *)

\* C7: add_vo appends the VO to the list and leaves the VOs before it as they
\* are; a tree that get_tree returns holds one record for each add_vo call made
\* so far, the i-th the expansion of the i-th VO of the list as it stands when
\* get_tree is called.
C7_RegistrationOrder ==
    [][/\ Len(registered') = Len(registered) + 1 =>
             /\ Len(vos') = Len(vos) + 1
             /\ SubSeq(vos', 1, Len(vos)) = vos
             /\ vos'[Len(vos')] = registered'[Len(registered')]
       /\ (nGetTree' = nGetTree + 1 /\ outcome' = "returned") =>
             /\ Len(TreeVOsOf(tree')) = Len(registered)
             /\ \A i \in 1..Len(vos) :
                   TreeVOsOf(tree')[i] =
                      expand_vo(contacts_table, reporting_groups, lastAuth',
                                vos[i]).value
      ]_vars

\* a tree has been returned, a second VO registered, and the tree returned
\* after that holds the records of both VOs, the first one first
C7_Witness ==
    /\ outcome = "returned" /\ lastOp = "get_tree" /\ nGetTree = MaxGetTree
    /\ Len(registered) = 2
    /\ Has(registered[1], "LongName") /\ ~Has(registered[2], "LongName")
    /\ Len(TreeVOsOf(tree)) = 2
    /\ Has(TreeVOsOf(tree)[1], "LongName") /\ ~Has(TreeVOsOf(tree)[2], "LongName")

(* C10 *)

\* C10, as stated: a get_tree call that follows a get_tree call with the same
\* authorized flag, with no add_vo between them, returns an equal tree.
C10_GetTreeRepeatable ==
    [][(/\ lastOp = "get_tree" /\ outcome = "returned"
        /\ nGetTree' = nGetTree + 1
        /\ lastAuth' = lastAuth)
       => (outcome' = "returned" /\ tree' = tree)]_vars

====
